---- MODULE Spec2Model ----
(***************************************************************************)
(* Heritaguessr (src/src/App.tsx): the module-level shuffle of the site    *)
(* catalog, the scoring functions haversineDistance and calculateScore,    *)
(* and the App component's session state driven by handleGuess.            *)
(*                                                                         *)
(* Numbers.  JavaScript numbers are modelled in fixed point:               *)
(*   - latitudes and longitudes are integers in microdegrees (the catalog  *)
(*     gives at most six decimals);                                        *)
(*   - radians, sines, cosines and exponentials are integers scaled by FP; *)
(*   - distances and the decay scale are integers in thousandths of a      *)
(*     kilometre (R is given in metres in the source, and R * c / 1000 is  *)
(*     kilometres).                                                        *)
(* Every product is formed by MulDivQR, which never leaves 32 bits.        *)
(***************************************************************************)
EXTENDS Integers, Sequences, FiniteSets

(***************************************************************************)
(* Bounds of the model.                                                    *)
(***************************************************************************)
\* Click events delivered to the map in one session.
MaxClicks == 6
\* Longest array handed to shuffleArray besides the catalog itself.
MaxLen == 3
\* Largest distance, in kilometres, of the walk through calculateScore.
MaxDistanceKm == 1600

(***************************************************************************)
(* Fixed-point arithmetic standing for number, Math.sin, Math.cos,         *)
(* Math.sqrt, Math.atan2, Math.exp and Math.round.                         *)
(***************************************************************************)
FP == 10000 * 10000

\* Math.PI scaled by FP.
PiFP == 314159265

Abs(x) == IF x < 0 THEN -x ELSE x

Sgn(x) == IF x < 0 THEN -1 ELSE 1

\* <<quotient, remainder>> of a * b by c, for a, b >= 0 and c > 0, by
\* doubling over the bits of b; no intermediate value exceeds 2 * c + a.
RECURSIVE MulDivQR(_, _, _)
MulDivQR(a, b, c) ==
    IF b = 0 THEN <<0, 0>>
    ELSE LET h == MulDivQR(a, b \div 2, c)
             t == 2 * h[2] + (b % 2) * a
         IN  <<2 * h[1] + (t \div c), t % c>>

MulDiv(a, b, c) == MulDivQR(a, b, c)[1]

\* x * y and x / y on numbers scaled by FP.
Mul(x, y) == Sgn(x) * Sgn(y) * MulDiv(Abs(x), Abs(y), FP)

Div(x, y) == Sgn(x) * Sgn(y) * MulDiv(Abs(x), FP, Abs(y))

\* acc + the alternating series whose next term is -term * x2 / (k * (k+1)).
RECURSIVE TrigSeries(_, _, _, _, _)
TrigSeries(term, x2, k, last, acc) ==
    IF k > last \/ term = 0 THEN acc
    ELSE LET nxt == -(Mul(term, x2) \div (k * (k + 1)))
         IN  TrigSeries(nxt, x2, k + 2, last, acc + nxt)

\* Math.sin for |x| <= pi.
MathSin(x) ==
    LET ax == Abs(x)
        r  == IF ax > PiFP \div 2 THEN PiFP - ax ELSE ax
    IN  Sgn(x) * TrigSeries(r, Mul(r, r), 2, 18, r)

\* Math.cos for |x| <= pi.
MathCos(x) ==
    LET ax == Abs(x)
        r  == IF ax > PiFP \div 2 THEN PiFP - ax ELSE ax
        s  == IF ax > PiFP \div 2 THEN -1 ELSE 1
    IN  s * TrigSeries(FP, Mul(r, r), 1, 17, FP)

\* The largest r in lo..hi with r * r <= a * FP.
RECURSIVE SqrtSearch(_, _, _)
SqrtSearch(a, lo, hi) ==
    IF lo >= hi THEN lo
    ELSE LET mid == (lo + hi + 1) \div 2
             qr  == MulDivQR(mid, mid, FP)
         IN  IF qr[1] < a \/ (qr[1] = a /\ qr[2] = 0)
             THEN SqrtSearch(a, mid, hi)
             ELSE SqrtSearch(a, lo, mid - 1)

\* Math.sqrt for a >= 0.
MathSqrt(a) == SqrtSearch(a, 0, IF a > FP THEN a ELSE FP)

\* acc + the series of atan whose next power is -pw * t2, divided by k.
RECURSIVE AtanSeries(_, _, _, _)
AtanSeries(pw, t2, k, acc) ==
    IF k > 25 \/ pw = 0 THEN acc
    ELSE LET p == -Mul(pw, t2)
         IN  AtanSeries(p, t2, k + 2, acc + (p \div k))

\* tan of half the angle whose tan is t.
HalfAngleTan(t) == Div(t, FP + MathSqrt(FP + Mul(t, t)))

\* atan(t) for 0 <= t <= 1.
AtanUnit(t) ==
    LET u == HalfAngleTan(HalfAngleTan(t))
    IN  4 * AtanSeries(u, Mul(u, u), 3, u)

\* Math.atan2(y, x) for y >= 0, x >= 0, not both 0.
MathAtan2(y, x) ==
    IF y <= x THEN AtanUnit(Div(y, x))
    ELSE PiFP \div 2 - AtanUnit(Div(x, y))

\* acc + the series of exp(-f) whose next term is -term * f / k.
RECURSIVE ExpSeries(_, _, _, _)
ExpSeries(term, f, k, acc) ==
    IF k > 14 \/ term = 0 THEN acc
    ELSE LET nxt == -(Mul(term, f) \div k)
         IN  ExpSeries(nxt, f, k + 1, acc + nxt)

\* exp(-n) for a natural number n.
RECURSIVE ExpNegInt(_)
ExpNegInt(n) ==
    IF n = 0 THEN FP
    ELSE IF n > 20 THEN 0
    ELSE Mul(ExpNegInt(n - 1), ExpSeries(FP, FP, 1, FP))

\* Math.exp(-num / den) for num >= 0, den > 0.
MathExpNeg(num, den) ==
    LET n == num \div den
        f == MulDiv(num % den, FP, den)
    IN  Mul(ExpNegInt(n), ExpSeries(FP, f, 1, FP))

\* Math.round(m * e) for e >= 0 scaled by FP: halves round up.
MathRound(m, e) ==
    LET qr == MulDivQR(e, m, FP)
    IN  qr[1] + (IF 2 * qr[2] >= FP THEN 1 ELSE 0)

\* degrees * Math.PI / 180, from microdegrees.
Radians(deg) == Sgn(deg) * MulDiv(Abs(deg), PiFP, 180 * 1000000)

(***************************************************************************)
(* The scoring functions.                                                  *)
(***************************************************************************)
\* Earth's radius in metres.
R == 6371000

\* A mis-typed haversine: the latitude difference taken as a sum.
haversineDistanceSum(lat1, lon1, lat2, lon2) ==
    LET p1 == Radians(lat1)
        p2 == Radians(lat2)
        dp == Radians(lat2 + lat1)
        dl == Radians(lon2 - lon1)
        a  == Mul(MathSin(dp \div 2), MathSin(dp \div 2))
              + Mul(Mul(MathCos(p1), MathCos(p2)),
                    Mul(MathSin(dl \div 2), MathSin(dl \div 2)))
        c  == 2 * MathAtan2(MathSqrt(a), MathSqrt(FP - a))
    IN  MulDiv(R, c, FP)

haversineDistance(lat1, lon1, lat2, lon2) ==
    LET p1 == Radians(lat1)
        p2 == Radians(lat2)
        dp == Radians(lat2 - lat1)
        dl == Radians(lon2 - lon1)
        a  == Mul(MathSin(dp \div 2), MathSin(dp \div 2))
              + Mul(Mul(MathCos(p1), MathCos(p2)),
                    Mul(MathSin(dl \div 2), MathSin(dl \div 2)))
        c  == 2 * MathAtan2(MathSqrt(a), MathSqrt(FP - a))
    IN  MulDiv(R, c, FP)

\* The default of calculateScore's parameter size: 3176.862 km.
DefaultSize == 3176862

\* The factor of the exponential, the score of distance 0.
FullScore == 50

\* A mis-typed score: size and distance exchanged in the exponent.
calculateScoreSwapped(distance, size) ==
    IF distance = 0 THEN 0
    ELSE MathRound(FullScore, MathExpNeg(10 * size, distance))

calculateScore(distance, size) ==
    MathRound(FullScore, MathExpNeg(10 * distance, size))

(***************************************************************************)
(* The catalog handed to shuffleArray.                                     *)
(***************************************************************************)
Catalog ==
    << [name |-> "Fort Louisbourg", lat |-> 45892200, lon |-> -59985500],
       [name |-> "Start of St. Lawrence Seaway", lat |-> 42891411, lon |-> -79251964],
       [name |-> "Rideau Canal", lat |-> 45422164, lon |-> -75691664],
       [name |-> "Plains of Abraham", lat |-> 46801500, lon |-> -71220100],
       [name |-> "End of St. Lawrence Seaway", lat |-> 45508888, lon |-> -73561668] >>

Range(s) == {s[k] : k \in DOMAIN s}

\* The map's initial centre, to the microdegree.
MapCenter == <<48393303, -65818146>>

\* The coordinates a click may carry: every site's own and the map's centre.
GuessPoints == {<<s.lat, s.lon>> : s \in Range(Catalog)} \cup {MapCenter}

\* calculateScore(haversineDistance(target, guess)) for every target of the
\* catalog and every coordinate a click may carry, computed once.
RoundOf ==
    [t \in Range(Catalog), g \in GuessPoints |->
        LET d == haversineDistance(t.lat, t.lon, g[1], g[2])
        IN  [distance |-> d, roundScore |-> calculateScore(d, DefaultSize)]]

(***************************************************************************)
(* State.                                                                  *)
(***************************************************************************)
VARIABLES
    pc,               \* "shuffle" while the module is loading, "app" once answers is bound
    array,            \* shuffleArray's parameter
    shuffled,         \* shuffleArray's local copy
    i,                \* shuffleArray's loop index (0-based)
    answers,          \* the module constant bound to shuffleArray's result
    currentIndex,     \* useState(0)
    score,            \* useState<number | string>('0')
    totalScore,       \* useState(0)
    scoreAnimation,   \* useState('')
    isDone,           \* useState(0)
    userGuess,        \* useState<[number, number] | null>(null)
    showCorrect,      \* useState(false)
    correctLocation,  \* useState<Location | null>(null)
    handler,          \* what the handleGuess registered on the map captured at its render
    clicks,           \* click events delivered so far
    accepted,         \* calls of handleGuess that passed its guard
    sumRoundScores,   \* the sum of the round scores of those calls
    lastCall,         \* the arguments and locals of the latest such call
    distanceArg,      \* the scoring walk: a distance handed to calculateScore
    scoreResult       \* the scoring walk: what calculateScore returned for it

shuffleVars == <<pc, array, shuffled, i, answers>>

sessionVars ==
    <<currentIndex, score, totalScore, scoreAnimation, isDone, userGuess,
      showCorrect, correctLocation>>

historyVars == <<clicks, accepted, sumRoundScores, lastCall>>

scoringVars == <<distanceArg, scoreResult>>

vars == <<shuffleVars, sessionVars, handler, historyVars, scoringVars>>

\* null of userGuess, and null of correctLocation.
NoGuess == <<>>

NoLocation == [name |-> "", lat |-> 0, lon |-> 0]

NoCall ==
    [playerLat |-> 0, playerLon |-> 0, index |-> 0, distance |-> 0,
     roundScore |-> 0, totalBefore |-> 0]

\* The values of score: the initial string, a round score, the final message.
TextScore(n) == [kind |-> "text", value |-> n]

NumberScore(n) == [kind |-> "number", value |-> n]

\* `You won with a score of ${total + roundScore}!`, without the sum.
WonMessageStale(total, roundScore) == [kind |-> "won", value |-> total]

WonMessage(total, roundScore) == [kind |-> "won", value |-> total + roundScore]

\* A render that leaves the first render's handleGuess registered on the map.
ClosureStale(index, total, done) ==
    [currentIndex |-> 0, totalScore |-> 0, isDone |-> 0]

\* The values a render of App closes handleGuess over.
Closure(index, total, done) ==
    [currentIndex |-> index, totalScore |-> total, isDone |-> done]

(***************************************************************************)
(* shuffleArray, one loop iteration per step.                              *)
(***************************************************************************)
\* The arrays handed to shuffleArray: the catalog, and every array of at
\* most MaxLen sites drawn, with repetition, from its first two.
RECURSIVE ArraysOver(_, _)
ArraysOver(elems, n) ==
    IF n = 0 THEN {<<>>}
    ELSE LET shorter == ArraysOver(elems, n - 1)
         IN  shorter \cup {Append(s, e) : s \in {t \in shorter : Len(t) = n - 1}, e \in elems}

ShuffleInputs == {Catalog} \cup ArraysOver({Catalog[1], Catalog[2]}, MaxLen)

\* [shuffled[i], shuffled[j]] = [shuffled[i]], with the second element lost.
SwapLossy(s, a, b) == [s EXCEPT ![a + 1] = s[b + 1]]

\* [shuffled[i], shuffled[j]] = [shuffled[j], shuffled[i]], on 0-based indices.
Swap(s, a, b) == [s EXCEPT ![a + 1] = s[b + 1], ![b + 1] = s[a + 1]]

\* Math.floor(Math.random() * (i + 1)): any of 0..i.
RandomIndex(n) == 0..n

ShuffleStep ==
    /\ pc = "shuffle"
    /\ i > 0
    /\ \E j \in RandomIndex(i) :
          shuffled' = Swap(shuffled, i, j)
    /\ i' = i - 1
    /\ UNCHANGED <<pc, array, answers, sessionVars, handler, historyVars, scoringVars>>

ShuffleReturn ==
    /\ pc = "shuffle"
    /\ ~(i > 0)
    /\ answers' = shuffled
    /\ pc' = "app"
    /\ UNCHANGED <<array, shuffled, i, sessionVars, handler, historyVars, scoringVars>>

(***************************************************************************)
(* handleGuess, with the render that follows it.                           *)
(***************************************************************************)
GuessIgnoredNever(h) == FALSE

\* if (isDone === 1) return;
GuessIgnored(h) == h.isDone = 1

IsLastRoundLate(h) == h.currentIndex + 1 > Len(answers)

\* if (currentIndex + 1 >= answers.length)
IsLastRound(h) == h.currentIndex + 1 >= Len(answers)

HasNextRoundAlways(h) == TRUE

\* if (currentIndex + 1 < answers.length)
HasNextRound(h) == h.currentIndex + 1 < Len(answers)

\* setTotalScore(prev => roundScore), the previous total dropped.
AddRoundScoreDropped(prev, roundScore) == roundScore

\* setTotalScore(prev => prev + roundScore)
AddRoundScore(prev, roundScore) == prev + roundScore

\* setCurrentIndex(prev => prev + 2), a round skipped.
NextIndexSkip(prev) == prev + 2

\* setCurrentIndex(prev => prev + 1)
NextIndex(prev) == prev + 1

\* setShowCorrect(true) left out.
ShowCorrectUnset(prev) == prev

\* setShowCorrect(true)
ShowCorrectSet(prev) == TRUE

\* One click on the map: handleGuess runs on the values its closure
\* captured, its state updates are applied in order (the functional ones to
\* the pending state), and the render they cause registers a handleGuess
\* closed over the new state before the next click is delivered.
handleGuess(playerLat, playerLon) ==
    /\ clicks' = clicks + 1
    /\ IF GuessIgnored(handler)
       THEN UNCHANGED <<sessionVars, handler, accepted, sumRoundScores, lastCall>>
       ELSE LET correct    == answers[handler.currentIndex + 1]
                round      == RoundOf[correct, <<playerLat, playerLon>>]
                distance   == round.distance
                roundScore == round.roundScore
            IN  /\ userGuess' = <<playerLat, playerLon>>
                /\ correctLocation' = correct
                /\ showCorrect' = ShowCorrectSet(showCorrect)
                /\ totalScore' = AddRoundScore(totalScore, roundScore)
                /\ IF IsLastRound(handler)
                   THEN /\ isDone' = 1
                        /\ score' = WonMessage(handler.totalScore, roundScore)
                        /\ scoreAnimation' = "done-animation"
                   ELSE /\ isDone' = isDone
                        /\ score' = NumberScore(roundScore)
                        /\ scoreAnimation' = "score-animation"
                /\ IF HasNextRound(handler)
                   THEN currentIndex' = NextIndex(currentIndex)
                   ELSE currentIndex' = currentIndex
                /\ handler' = Closure(currentIndex', totalScore', isDone')
                /\ accepted' = accepted + 1
                /\ sumRoundScores' = sumRoundScores + roundScore
                /\ lastCall' =
                       [playerLat |-> playerLat, playerLon |-> playerLon,
                        index |-> handler.currentIndex, distance |-> distance,
                        roundScore |-> roundScore, totalBefore |-> totalScore]

\* MapEvents: a click on the map calls onMapClick with its coordinate.
Click ==
    /\ pc = "app"
    /\ clicks < MaxClicks
    /\ \E g \in GuessPoints : handleGuess(g[1], g[2])
    /\ UNCHANGED <<shuffleVars, scoringVars>>

(***************************************************************************)
(* calculateScore on its own: a walk through growing distances.            *)
(***************************************************************************)
\* Distances beyond the walk: 5000 km and half the Earth's circumference.
FarDistances == {5000000, MulDiv(R, PiFP, FP)}

\* The next distance of the walk, half a kilometre on.
NextDistance ==
    /\ distanceArg + 500 <= MaxDistanceKm * 1000
    /\ distanceArg' = distanceArg + 500
    /\ scoreResult' = calculateScore(distanceArg', DefaultSize)
    /\ UNCHANGED <<shuffleVars, sessionVars, handler, historyVars>>

\* From the end of the walk, a distance far beyond it.
FarDistance ==
    /\ distanceArg + 500 > MaxDistanceKm * 1000
    /\ distanceArg < 5000000
    /\ \E far \in FarDistances : distanceArg' = far
    /\ scoreResult' = calculateScore(distanceArg', DefaultSize)
    /\ UNCHANGED <<shuffleVars, sessionVars, handler, historyVars>>

(***************************************************************************)
(* Specifications.                                                         *)
(***************************************************************************)
\* The state of App before its first click, and of the scoring walk.
InitApp ==
    /\ currentIndex = 0
    /\ score = TextScore(0)
    /\ totalScore = 0
    /\ scoreAnimation = ""
    /\ isDone = 0
    /\ userGuess = NoGuess
    /\ showCorrect = FALSE
    /\ correctLocation = NoLocation
    /\ handler = Closure(0, 0, 0)
    /\ clicks = 0
    /\ accepted = 0
    /\ sumRoundScores = 0
    /\ lastCall = NoCall
    /\ distanceArg = 0
    /\ scoreResult = calculateScore(0, DefaultSize)

\* shuffleArray entered with the given array.
InitShuffleOf(input) ==
    /\ pc = "shuffle"
    /\ array = input
    /\ shuffled = input
    /\ i = Len(input) - 1
    /\ answers = <<>>

\* The program: the module shuffles the catalog, then App takes clicks.
Init == InitShuffleOf(Catalog) /\ InitApp

Next == ShuffleStep \/ ShuffleReturn \/ Click

Spec == Init /\ [][Next]_vars

\* shuffleArray on every input array of the bounded set.
InitShuffle == (\E input \in ShuffleInputs : InitShuffleOf(input)) /\ InitApp

NextShuffle == ShuffleStep \/ ShuffleReturn

SpecShuffle == InitShuffle /\ [][NextShuffle]_vars

\* calculateScore on growing distances, from 0.
NextScore == NextDistance \/ FarDistance

SpecScore == Init /\ [][NextScore]_vars

(***************************************************************************)
(* What App renders from its state.                                        *)
(***************************************************************************)
\* {userGuess && <CircleMarker ... red />}
GuessMarkerShown == userGuess # NoGuess

\* {showCorrect && correctLocation && <CircleMarker ... green />}
TargetMarkerShown == showCorrect /\ correctLocation # NoLocation

\* {userGuess && correctLocation && showCorrect && <Polyline ... />}
LineShown == userGuess # NoGuess /\ correctLocation # NoLocation /\ showCorrect

\* The prompt dialog is given the class 'hidden' when isDone === 1.
PromptShown == ~(isDone = 1)

\* s and t hold the same elements, each as often in one as in the other.
Count(s, e) == Cardinality({k \in DOMAIN s : s[k] = e})

IsPermutation(s, t) ==
    /\ Len(s) = Len(t)
    /\ \A e \in Range(s) \cup Range(t) : Count(s, e) = Count(t, e)

(***************************************************************************)
(* Properties.                                                             *)
(***************************************************************************)

\* C1: the session starts at currentIndex = 0, totalScore = 0, isDone = 0;
\* it is complete exactly when N = catalog size guesses have been accepted,
\* never after fewer, and totalScore is then the sum of the N round scores.
C1_CompleteAfterN ==
    pc = "app" =>
        /\ accepted = 0 => (currentIndex = 0 /\ totalScore = 0 /\ isDone = 0)
        /\ accepted <= Len(Catalog)
        /\ isDone = 1 <=> accepted = Len(Catalog)
        /\ isDone = 1 => totalScore = sumRoundScores

C1_Witness ==
    isDone = 1 /\ accepted = Len(Catalog) /\ totalScore > FullScore

\* C2: a click delivered while the session is complete changes no field of
\* the session, the displayed score and summary included.
C2_GuessWhenDoneIsNoOp ==
    [][(isDone = 1 /\ clicks' = clicks + 1)
          => UNCHANGED <<sessionVars, handler, accepted, sumRoundScores>>]_vars

C2_Witness == isDone = 1 /\ clicks > accepted

\* C3: once App runs, currentIndex is always an index of answers, in the
\* state and in what handleGuess captured, so answers[currentIndex] is a site.
C3_IndexInRange ==
    pc = "app" =>
        /\ currentIndex \in 0..(Len(answers) - 1)
        /\ handler.currentIndex \in 0..(Len(answers) - 1)
        /\ answers[currentIndex + 1] \in Range(Catalog)

C3_Witness ==
    pc = "app" /\ currentIndex = Len(answers) - 1 /\ clicks > accepted

\* C4: once the last round's guess is accepted, the number in the final
\* message is totalScore with that guess's round score added.
C4_SummaryIsTotal ==
    isDone = 1 => (score.kind = "won" /\ score.value = totalScore)

C4_Witness ==
    /\ isDone = 1
    /\ score.kind = "won"
    /\ lastCall.roundScore > 0
    /\ lastCall.totalBefore > 0

\* C5, as claimed: after every accepted guess, the last one included, the
\* state holds the clicked coordinate, the target of that round, the round
\* score as the integer in score, and a total grown by that round score.
C5_Original ==
    (pc = "app" /\ accepted > 0) =>
        /\ userGuess = <<lastCall.playerLat, lastCall.playerLon>>
        /\ correctLocation = answers[lastCall.index + 1]
        /\ score = NumberScore(lastCall.roundScore)
        /\ totalScore = lastCall.totalBefore + lastCall.roundScore

\* C5, amended: every accepted guess records the clicked coordinate in
\* userGuess and the target of the round it was made in in correctLocation,
\* and adds exactly the round score computed for them to totalScore; score
\* holds that round score after a guess on a round before the last, and the
\* final message, not the round score, after the guess on the last round.
C5_GuessRecorded ==
    [][accepted' = accepted + 1 =>
          LET target     == answers[currentIndex + 1]
              roundScore == RoundOf[target, userGuess'].roundScore
          IN  /\ userGuess' = <<lastCall'.playerLat, lastCall'.playerLon>>
              /\ correctLocation' = target
              /\ lastCall'.roundScore = roundScore
              /\ totalScore' = totalScore + roundScore
              /\ score' = IF currentIndex + 1 < Len(answers)
                          THEN NumberScore(roundScore)
                          ELSE [kind |-> "won", value |-> totalScore + roundScore]]_vars

C5_Witness ==
    /\ isDone = 1
    /\ score.kind = "won"
    /\ lastCall.roundScore > 0
    /\ score.value # lastCall.roundScore

\* C6: calculateScore with the default scale gives 50 at distance 0, an
\* integer of 0..50 at every distance, and never more at a larger distance.
C6_ScoreRangeAndMonotone ==
    /\ [](scoreResult \in 0..50 /\ (distanceArg = 0 => scoreResult = 50))
    /\ [][distanceArg' >= distanceArg => scoreResult' <= scoreResult]_vars

C6_Witness == distanceArg > 0 /\ scoreResult = 25

\* C7: shuffleArray never changes the array it is given, its copy holds the
\* same elements as often at every step, so its result is a permutation of
\* its input; of the catalog, every site is in the round order exactly once.
C7_ShuffleIsPermutation ==
    /\ [][array' = array]_vars
    /\ [](IsPermutation(shuffled, array))
    /\ [](pc = "app" =>
            /\ IsPermutation(answers, array)
            /\ array = Catalog => \A site \in Range(Catalog) : Count(answers, site) = 1)

C7_Witness == pc = "app" /\ array = Catalog /\ answers # array

\* C8: the guess marker, the target marker and the line between them are
\* all absent before the first accepted guess and all present after it, and
\* the prompt is shown exactly while fewer than N guesses have been accepted.
C8_RevealOnlyAfterGuess ==
    pc = "app" =>
        /\ accepted = 0 => (~GuessMarkerShown /\ ~TargetMarkerShown /\ ~LineShown)
        /\ accepted > 0 => (GuessMarkerShown /\ TargetMarkerShown /\ LineShown)
        /\ PromptShown <=> accepted < Len(Catalog)

C8_Witness ==
    accepted = 1 /\ GuessMarkerShown /\ TargetMarkerShown /\ LineShown /\ PromptShown

\* C9: for every site of the catalog, a guess at exactly the site's
\* coordinate is at distance 0 and scores 50.
C9_ExactGuessScoresFull ==
    /\ \A site \in Range(Catalog) :
          RoundOf[site, <<site.lat, site.lon>>] = [distance |-> 0, roundScore |-> 50]
    /\ (pc = "app" /\ accepted > 0 /\ userGuess = <<correctLocation.lat, correctLocation.lon>>)
          => /\ lastCall.distance = 0
             /\ lastCall.roundScore = 50
             /\ totalScore = lastCall.totalBefore + 50

C9_Witness ==
    /\ accepted > 0
    /\ correctLocation.name = "Rideau Canal"
    /\ userGuess = <<45422164, -75691664>>
    /\ lastCall.roundScore = 50

\* The round whose target is (46.8015, -71.2201) and whose guess is
\* (42.891411, -79.251964).
PlainsFromSeawayStart ==
    /\ accepted > 0
    /\ <<correctLocation.lat, correctLocation.lon>> = <<46801500, -71220100>>
    /\ userGuess = <<42891411, -79251964>>

\* C10, as claimed: for that round the distance is 706 km to the kilometre
\* and the round score is 6.
C10_Original ==
    PlainsFromSeawayStart =>
        /\ lastCall.distance \in 705500..706499
        /\ lastCall.roundScore = 6

\* C10, amended: for that round the distance is 767.5 km to the half
\* kilometre and the round score is 4.
C10_DistanceAndScore ==
    PlainsFromSeawayStart =>
        /\ lastCall.distance \in 767000..767999
        /\ lastCall.roundScore = 4

C10_Witness == PlainsFromSeawayStart /\ lastCall.roundScore = 4

\* C11: an accepted guess on a round before the last moves currentIndex on
\* by exactly 1 and leaves isDone = 0, an accepted guess on the last round
\* leaves currentIndex at N - 1 and sets isDone = 1; the k-th accepted guess
\* is scored against answers[k - 1], so each site is the target of one guess.
C11_RoundsAdvanceLinearly ==
    [][accepted' = accepted + 1 =>
          /\ accepted < Len(answers)
          /\ lastCall'.index = accepted
          /\ correctLocation' = answers[accepted + 1]
          /\ lastCall'.roundScore = RoundOf[answers[accepted + 1], userGuess'].roundScore
          /\ IF currentIndex < Len(answers) - 1
             THEN currentIndex' = currentIndex + 1 /\ isDone' = 0
             ELSE currentIndex' = Len(answers) - 1 /\ isDone' = 1]_vars

C11_Witness ==
    /\ accepted = Len(Catalog)
    /\ lastCall.index = Len(Catalog) - 1
    /\ currentIndex = Len(Catalog) - 1
    /\ isDone = 1

C13_RevealedTargetIsPreviousRound ==
    pc = "app" =>
        /\ (accepted > 0 /\ isDone = 0) =>
              /\ currentIndex >= 1
              /\ correctLocation = answers[(currentIndex - 1) + 1]
              /\ correctLocation # answers[currentIndex + 1]
        /\ isDone = 1 =>
              /\ currentIndex = Len(answers) - 1
              /\ correctLocation = answers[Len(answers)]
              /\ correctLocation = answers[currentIndex + 1]

C13_Witness ==
    /\ accepted = 2
    /\ isDone = 0
    /\ correctLocation = answers[2]
    /\ answers[currentIndex + 1] = answers[3]

\* C14: totalScore never decreases, after k accepted guesses it lies in
\* 0..50 * k and so never exceeds 50 * N, and isDone never returns from 1
\* to 0.
C14_TotalScoreBounded ==
    /\ [](/\ 0 <= totalScore
          /\ totalScore <= 50 * accepted
          /\ totalScore <= 50 * Len(Catalog))
    /\ [][totalScore' >= totalScore /\ (isDone = 1 => isDone' = 1)]_vars

C14_Witness ==
    isDone = 1 /\ clicks > accepted /\ totalScore = 50 * Len(Catalog)

====
